---- MODULE Spec2Model ----
(***************************************************************************)
(* The stats store (MemStorage), the platform adapters, the adapter        *)
(* factory and the request layer of the social-media analytics dashboard.  *)
(*                                                                         *)
(* Conventions:                                                            *)
(*   - a JavaScript `undefined`/`null` stats entry is NoStats, a missing   *)
(*     or null credential is the empty string (both are falsy in the code) *)
(*   - timestamps are integers: lastUpdated is a reading of the clock,     *)
(*     datePosted is a day number (2023-06-01 is day 1)                    *)
(*   - decimal growth figures and the 4.5 / 4.2 scale factors are kept in  *)
(*     tenths                                                              *)
(***************************************************************************)
EXTENDS Integers, Sequences, FiniteSets, TLC

(***************************************************************************)
(* Bounds of the model.                                                    *)
(***************************************************************************)
\* number of POST /api/user creations explored
MaxUsers == 2
\* number of subscription records explored
MaxSubs == 2
\* adapter frames counted on the call stack; deeper frames are identical
MaxDepth == 2
\* latest reading of the wall clock that is told apart
MaxClock == 1
\* largest limit over which the pagination of a result is examined
MaxLimit == 4
MaxDay == 1
MaxSyncs == 2

(***************************************************************************)
(* Program constants.                                                      *)
(***************************************************************************)
Platforms == <<"youtube", "instagram", "twitter", "facebook">>
PlatformSet == {Platforms[i] : i \in 1..Len(Platforms)}
FreeDays == 7
DefaultUserId == 1
DefaultDays == 7
DefaultPage == 1
DefaultLimit == 10

NoStats == [platform |-> "none"]

Min(a, b) == IF a < b THEN a ELSE b
Max(a, b) == IF a > b THEN a ELSE b

(***************************************************************************)
(* Sample data of MemStorage.initializeSampleData.                         *)
(***************************************************************************)
Post(id, platform, views, likes, comments, shares, datePosted) ==
  [id |-> id, platform |-> platform, views |-> views, likes |-> likes,
   comments |-> comments, shares |-> shares, datePosted |-> datePosted]

Stats(platform, followers, fg, views, vg, engagement, eg, now, posts) ==
  [platform |-> platform, followers |-> followers, followersGrowth |-> fg,
   views |-> views, viewsGrowth |-> vg, engagement |-> engagement,
   engagementGrowth |-> eg, lastUpdated |-> now, posts |-> posts,
   isApiError |-> FALSE, errorMessage |-> ""]

sampleData(now) ==
  [p \in PlatformSet |->
     CASE p = "youtube" ->
            Stats("youtube", 78200, 12, 1200000, 35, 25600, 47, now,
                  <<Post("yt1", "youtube", 24800, 1200, 156, 86, 12),
                    Post("yt2", "youtube", 18500, 950, 120, 65, 10)>>)
       [] p = "instagram" ->
            Stats("instagram", 45800, 24, 230000, 56, 18900, 32, now,
                  <<Post("ig1", "instagram", 8400, 945, 42, 0, 10),
                    Post("ig2", "instagram", 6200, 720, 38, 0, 8)>>)
       [] p = "twitter" ->
            Stats("twitter", 22100, 18, 238000, -21, 5600, 8, now,
                  <<Post("tw1", "twitter", 12300, 248, 32, 68, 8),
                    Post("tw2", "twitter", 8900, 180, 124, 23, 7)>>)
       [] OTHER ->
            Stats("facebook", 15400, 9, 42800, 38, 6100, 21, now,
                  <<Post("fb1", "facebook", 5600, 124, 36, 18, 6),
                    Post("fb2", "facebook", 4200, 98, 28, 15, 5)>>)]

\* Math.floor(x * t / 10) for x >= 0
FloorTenths(x, t) == (x * t) \div 10

\* one of the six older copies appended to the 30-day entry (i = 0..5)
morePost(posts, i) ==
  LET post == posts[(i % Len(posts)) + 1]
  IN  [post EXCEPT !.id = post.id \o "-" \o ToString(i + 3),
                   !.views = FloorTenths(post.views, 8),
                   !.likes = FloorTenths(post.likes, 7),
                   !.comments = (post.comments * 75) \div 100,
                   !.shares = FloorTenths(post.shares, 7),
                   !.datePosted = post.datePosted - (i + 3) * 2]

thirtyDayData(now) ==
  [p \in PlatformSet |->
     LET stats == sampleData(now)[p]
     IN  [stats EXCEPT !.views = (stats.views * 45) \div 10,
                       !.engagement = (stats.engagement * 42) \div 10,
                       !.posts = stats.posts \o
                                 [i \in 1..6 |-> morePost(stats.posts, i - 1)]]]

\* the cache is keyed by the string `${userId}:${platform}:${days}`
Key(userId, platform, days) == <<userId, platform, days>>

initializeSampleData(now) ==
  [k \in {Key(1, p, d) : p \in PlatformSet, d \in {7, 30}} |->
     IF k[3] = 7 THEN sampleData(now)[k[2]] ELSE thirtyDayData(now)[k[2]]]


(***************************************************************************)
(* Inputs of the requests explored.                                        *)
(***************************************************************************)
Absent == [t |-> "none", v |-> 0]
Text == [t |-> "text", v |-> 0]
Num(n) == [t |-> "num", v |-> n]

\* raw query parameters: missing, non-numeric, or an integer literal
RawUserIds == {Absent, Text, Num(1), Num(2)}
RawDays == {Absent, Text, Num(0), Num(3), Num(7), Num(30)}
StatsPlatforms == {"", "all", "youtube", "twitter", "tiktok"}
PostsPlatforms == {"", "youtube"}
RawPages == {Absent, Num(-1), Num(2)}
RawLimits == {Absent, Num(3)}
FirebaseUids == 1..MaxUsers
\* the one identity, and the user id it gets, that the clients use while the
\* reads are explored
ReaderUids == {1}
ReaderIds == {1}
\* fields a client may add to the body of POST /api/user
UserExtras == {<< >>, [isPro |-> FALSE, isFirstLogin |-> TRUE],
               [isPro |-> TRUE, isFirstLogin |-> FALSE]}
\* platforms for which the explored clients submit or clear a credential
KeyPlatforms == {"youtube", "twitter"}
KeyValues == {"k", ""}

\* results the YouTube Data API may deliver to a successful fetch
LiveVariants == {1}
youtubeLive(variant, now) ==
  IF variant = 1
  THEN Stats("youtube", 1000, -20, 5000, 80, 40, 0, now,
             <<Post("vidA", "youtube", 300, 30, 3, 0, 9),
               Post("vidB", "youtube", 200, 20, 2, 0, 11),
               Post("vidC", "youtube", 100, 10, 1, 0, 9)>>)
  ELSE Stats("youtube", 2000, 80, 7000, -20, 90, 30, now, << >>)

(***************************************************************************)
(* State.                                                                  *)
(***************************************************************************)
VARIABLES
  users,                  \* MemStorage.users: id -> User
  platformApiKeys,        \* MemStorage.platformApiKeys: id -> ApiKey
  userSubscriptions,      \* MemStorage.userSubscriptions: id -> Subscription
  socialStats,            \* MemStorage.socialStats: key -> stats
  currentUserId, currentApiKeyId, currentSubscriptionId,
  req,                    \* the request being served
  resp,                   \* its HTTP response, once sent
  pc,                     \* position of the handler serving req
  apiKeys0,               \* the credential set read at the start of
                          \* getAllPlatformStats / getPosts
  idx,                    \* position in the platform loop
  acc,                    \* stats / posts collected by the loop so far
  depth,                  \* adapter frames on the call stack of the read
  ret,                    \* value handed back by the frame that just ended
  fetches,                \* adapter fetches started by the current read
  hadKey, before, firstFailed, \* the current getPlatformStats read: was a
                          \* credential on file when it started, the cache
                          \* entry at that moment, did its first fetch fail
  today,                  \* the browser's clock: what new Date() reads
  postsPage,              \* PostsPage: dateRange (prop), platform, page,
                          \* limit, and the data of its query
  firebaseUser,           \* the identity provider's current user
  auth,                   \* useAuth: isInitializing, isAuthenticated, user
  syncs,                  \* the syncUserWithBackend calls in flight
  modal                   \* UpgradeModal: selectedPlan, isProcessing, where
                          \* handlePayment stands, and isLoaded of useRazorpay

store == <<users, platformApiKeys, userSubscriptions, socialStats,
           currentUserId, currentApiKeyId, currentSubscriptionId>>
loop == <<apiKeys0, idx, acc>>
read == <<depth, ret, fetches, hadKey, before, firstFailed>>
server == <<store, req, resp, pc, loop, read>>
client == <<today, postsPage, firebaseUser, auth, syncs, modal>>
vars == <<server, client>>

NoUser == [id |-> 0]
NoKeys == [id |-> 0]
NoSub == [id |-> 0]
NoReq == [route |-> "none"]
NoResp == [status |-> 0]
Thrown == [platform |-> "thrown"]

(***************************************************************************)
(* MemStorage: users, credentials, subscriptions.                          *)
(***************************************************************************)
\* Array.from(map.values()).find(pred): the first match in insertion order
FindFirst(map, Pred(_), none) ==
  LET hits == {i \in DOMAIN map : Pred(map[i])}
  IN  IF hits = {} THEN none
      ELSE map[CHOOSE i \in hits : \A j \in hits : i <= j]

getUser(id) == IF id \in DOMAIN users THEN users[id] ELSE NoUser

getUserByFirebaseUid(firebaseUid) ==
  LET Match(u) == u.firebaseUid = firebaseUid
  IN  FindFirst(users, Match, NoUser)

createUser(insertUser) ==
  Append(users, [id |-> currentUserId, firebaseUid |-> insertUser.firebaseUid,
                 isPro |-> FALSE, isFirstLogin |-> TRUE])

\* { ...user, ...data }; an unknown id leaves the map alone
updateUser(id, data) ==
  IF id \in DOMAIN users THEN [users EXCEPT ![id] = data @@ users[id]] ELSE users

getApiKeys(userId) ==
  LET Match(k) == k.userId = userId
  IN  FindFirst(platformApiKeys, Match, NoKeys)

\* insertApiKey.<field> || null
FieldOrNull(data, field) == IF field \in DOMAIN data THEN data[field] ELSE ""

saveApiKeys(insertApiKey) ==
  Append(platformApiKeys,
         [id |-> currentApiKeyId, userId |-> insertApiKey.userId,
          youtubeKey |-> FieldOrNull(insertApiKey, "youtubeKey"),
          instagramKey |-> FieldOrNull(insertApiKey, "instagramKey"),
          twitterKey |-> FieldOrNull(insertApiKey, "twitterKey"),
          facebookKey |-> FieldOrNull(insertApiKey, "facebookKey")])

\* variant: an update that stores the submitted fields in place of the record
updateApiKeysReplaces(userId, data) ==
  LET apiKey == getApiKeys(userId)
  IN  IF apiKey = NoKeys THEN platformApiKeys
      ELSE [platformApiKeys EXCEPT ![apiKey.id] =
              [id |-> apiKey.id, userId |-> userId,
               youtubeKey |-> FieldOrNull(data, "youtubeKey"),
               instagramKey |-> FieldOrNull(data, "instagramKey"),
               twitterKey |-> FieldOrNull(data, "twitterKey"),
               facebookKey |-> FieldOrNull(data, "facebookKey")]]

updateApiKeys(userId, data) ==
  LET apiKey == getApiKeys(userId)
  IN  IF apiKey = NoKeys THEN platformApiKeys
      ELSE [platformApiKeys EXCEPT ![apiKey.id] = data @@ apiKey]

getSubscription(userId) ==
  LET Match(s) == s.userId = userId
  IN  FindFirst(userSubscriptions, Match, NoSub)

createSubscription(insertSubscription) ==
  Append(userSubscriptions,
         [id |-> currentSubscriptionId] @@ insertSubscription)

\* apiKeys?.[`${platform}Key`]
KeyOf(apiKeys, platform) ==
  LET field == platform \o "Key"
  IN  IF field \in DOMAIN apiKeys THEN apiKeys[field] ELSE ""

\* variant: connected as soon as a credential set exists
ConnectedIfAnyRecord(apiKeys, platform) ==
  IF apiKeys = NoKeys THEN "undefined" ELSE "true"

\* apiKeys && !!apiKeys[`${platform}Key`]
Connected(apiKeys, platform) ==
  IF apiKeys = NoKeys THEN "undefined"
  ELSE IF KeyOf(apiKeys, platform) # "" THEN "true" ELSE "false"

\* this.socialStats.get(key)
CacheGet(cache, key) == IF key \in DOMAIN cache THEN cache[key] ELSE NoStats

\* variant: a cache keyed by user and platform, every window sharing the
\* entry of the default window
CacheSetIgnoresWindow(cache, key, value) ==
  [k \in DOMAIN cache \cup {Key(key[1], key[2], DefaultDays)} |->
     IF k = Key(key[1], key[2], DefaultDays) THEN value ELSE cache[k]]

\* this.socialStats.set(key, value)
CacheSet(cache, key, value) ==
  [k \in DOMAIN cache \cup {key} |-> IF k = key THEN value ELSE cache[k]]

\* new Date(): the clock reads later than every timestamp the cache holds;
\* readings from MaxClock on are not told apart
Latest(cache) ==
  LET stamps == {cache[k].lastUpdated : k \in DOMAIN cache}
  IN  CHOOSE t \in stamps : \A u \in stamps : u <= t

Now == Min(Latest(socialStats) + 1, MaxClock)

(***************************************************************************)
(* Adapter factory and the adapters' fallback.                             *)
(***************************************************************************)
\* variant: a factory without the case for facebook
getServiceLacksFacebook(platform) ==
  CASE platform = "youtube" -> "YouTubeApiService"
    [] platform = "twitter" -> "TwitterApiService"
    [] platform = "instagram" -> "InstagramApiService"
    [] OTHER -> "unsupported"

\* the adapter class instantiated for a tag; "unsupported" is the thrown
\* Error(`Unsupported platform: ${platform}`)
getService(platform) ==
  CASE platform = "youtube" -> "YouTubeApiService"
    [] platform = "twitter" -> "TwitterApiService"
    [] platform = "instagram" -> "InstagramApiService"
    [] platform = "facebook" -> "FacebookApiService"
    [] OTHER -> "unsupported"

\* the adapters other than YouTube's throw before any outbound call
CanSucceed(service) == service = "YouTubeApiService"

\* { ...existingData, lastUpdated, errorMessage, isApiError: true }
Annotate(existingData, now) ==
  [existingData EXCEPT !.lastUpdated = now, !.errorMessage = "error",
                       !.isApiError = TRUE]

\* the catch block of an adapter, given what the store read returned
AdapterFallback(existingData, now) ==
  IF existingData # NoStats THEN Annotate(existingData, now) ELSE Thrown

(***************************************************************************)
(* Request layer: parsing and the free-tier gate.                          *)
(***************************************************************************)
\* Number(req.query.x) || dflt: NaN and 0 are falsy
NumberOr(raw, dflt) == IF raw.t = "num" /\ raw.v # 0 THEN raw.v ELSE dflt

\* variant: the gate with the threshold of the 30-day option
GateAboveThirty(user, days) == ~user.isPro /\ days > 30

\* variant: a gate that does not look at the plan of the user
GateIgnoresPro(user, days) == days > FreeDays

\* !user.isPro && days > 7
GateDenies(user, days) == ~user.isPro /\ days > FreeDays

Denied == [status |-> 403, upgrade |-> TRUE]
NotFound == [status |-> 404]

(***************************************************************************)
(* Client: lib/dateUtils.  An instant is a local calendar day (its number) *)
(* and the milliseconds elapsed since that day began; every day has        *)
(* millisecondsPerDay of them.                                             *)
(***************************************************************************)
millisecondsPerDay == 24 * 60 * 60 * 1000

Instant(day, ms) == [day |-> day, ms |-> ms]

\* date-fns
subDays(date, amount) == [date EXCEPT !.day = @ - amount]
startOfDay(date) == [date EXCEPT !.ms = 0]
endOfDay(date) == [date EXCEPT !.ms = millisecondsPerDay - 1]

\* the days the start of an option's range lies before today
DaysBack(option) ==
  CASE option = "7d" -> 6
    [] option = "30d" -> 29
    [] option = "custom" -> 13
    [] OTHER -> 6

RangeLabel(option) ==
  CASE option = "30d" -> "Last 30 days"
    [] option = "custom" -> "Custom range"
    [] OTHER -> "Last 7 days"

getDateRangeFromOption(option, now) ==
  [startDate |-> startOfDay(subDays(now, DaysBack(option))),
   endDate |-> endOfDay(now),
   label |-> RangeLabel(option)]

\* Math.round(n / d) for d > 0: the nearest integer, halves upwards
RoundDiv(n, d) == (2 * n + d) \div (2 * d)

\* endDate.getTime() - startDate.getTime(), whole days and the rest apart
getDaysInRange(range) ==
  LET wholeDays == range.endDate.day - range.startDate.day
      rest == range.endDate.ms - range.startDate.ms
  IN  wholeDays + RoundDiv(rest, millisecondsPerDay) + 1

(***************************************************************************)
(* Client: initial state of the Posts page, of the useAuth hook and of the *)
(* upgrade dialog.                                                         *)
(***************************************************************************)
Loading == [state |-> "loading"]
Failed == [state |-> "error"]

NoFirebaseUser == 0
NoRun == [user |-> NoUser]
NoSync == [stage |-> "settled", observer |-> FALSE]

ClientInit ==
  /\ today = Instant(0, 0)
  /\ postsPage = [dateRange |-> "7d", platform |-> "all", page |-> 1,
                  limit |-> 10, data |-> Loading]
  /\ firebaseUser = NoFirebaseUser
  /\ auth = [isInitializing |-> TRUE, isAuthenticated |-> FALSE,
             user |-> NoUser]
  /\ syncs = [s \in 1..MaxSyncs |-> NoSync]
  /\ modal = [selectedPlan |-> "monthly", isProcessing |-> FALSE,
              isLoaded |-> FALSE, at |-> "idle", run |-> NoRun]

(***************************************************************************)
(* Init: the state after `new MemStorage()`, no request being served.      *)
(* Requests are served one at a time: the next one arrives after the       *)
(* response to the previous one was sent.                                  *)
(***************************************************************************)
IdleRead ==
  /\ depth = 0 /\ ret = NoStats /\ fetches = 0
  /\ hadKey = FALSE /\ before = NoStats /\ firstFailed = FALSE

IdleLoop == apiKeys0 = NoKeys /\ idx = 0 /\ acc = << >>

Init ==
  /\ users = << >> /\ platformApiKeys = << >> /\ userSubscriptions = << >>
  /\ currentUserId = 1 /\ currentApiKeyId = 1 /\ currentSubscriptionId = 1
  /\ socialStats = initializeSampleData(0)
  /\ req = NoReq /\ resp = NoResp /\ pc = "idle"
  /\ IdleLoop /\ IdleRead
  /\ ClientInit

\* a handler that answers at once
Respond(request, response) ==
  /\ req' = request /\ resp' = response /\ pc' = "done"
  /\ UNCHANGED <<loop, read>>

(***************************************************************************)
(* POST /api/user                                                          *)
(***************************************************************************)
\* variant: a schema that omits nothing
insertUserSchemaKeepsAll(userData) == userData

\* insertUserSchema.parse: the insert fields of the body, nothing else (id,
\* isPro, lastLogin and isFirstLogin are omitted from the schema)
insertUserSchema(userData) ==
  [f \in DOMAIN userData \cap {"firebaseUid"} |-> userData[f]]

PostUser(firebaseUid, extra) ==
  LET userData == IF extra = << >> THEN [firebaseUid |-> firebaseUid]
                  ELSE [firebaseUid |-> firebaseUid] @@ extra
      validatedData == insertUserSchema(userData)
      existingUser == getUserByFirebaseUid(firebaseUid)
      request == [route |-> "POST /api/user", body |-> userData]
  IN  /\ pc = "idle"
      /\ IF existingUser # NoUser
         THEN /\ users' = updateUser(existingUser.id, validatedData)
              /\ UNCHANGED currentUserId
              /\ Respond(request, [status |-> 200, user |-> users'[existingUser.id]])
         ELSE /\ currentUserId <= MaxUsers
              /\ users' = createUser(validatedData)
              /\ currentUserId' = currentUserId + 1
              /\ Respond(request, [status |-> 201, user |-> users'[currentUserId]])
      /\ UNCHANGED <<platformApiKeys, userSubscriptions, socialStats,
                     currentApiKeyId, currentSubscriptionId>>
      /\ UNCHANGED client

(***************************************************************************)
(* POST /api/apikeys                                                       *)
(***************************************************************************)
ApiKeysBody(userId, platform, value) ==
  ((platform \o "Key") :> value) @@ [userId |-> userId]

\* variant: a handler that saves a new credential set on every request
SaveKeysAlwaysCreates(validatedData) ==
  /\ platformApiKeys' = saveApiKeys(validatedData)
  /\ currentApiKeyId' = currentApiKeyId + 1
  /\ users' = updateUser(validatedData.userId, [isFirstLogin |-> FALSE])

\* the store after the handler ran, and the status it answers
SaveKeys(validatedData) ==
  LET existingApiKeys == getApiKeys(validatedData.userId)
  IN  IF existingApiKeys # NoKeys
      THEN /\ platformApiKeys' = updateApiKeys(validatedData.userId, validatedData)
           /\ UNCHANGED <<users, currentApiKeyId>>
      ELSE /\ platformApiKeys' = saveApiKeys(validatedData)
           /\ currentApiKeyId' = currentApiKeyId + 1
           /\ users' = updateUser(validatedData.userId, [isFirstLogin |-> FALSE])

PostApiKeys(userId, platform, value) ==
  LET validatedData == ApiKeysBody(userId, platform, value)
      created == getApiKeys(userId) = NoKeys
  IN  /\ pc = "idle"
      /\ SaveKeys(validatedData)
      /\ Respond([route |-> "POST /api/apikeys", body |-> validatedData],
                 [status |-> IF created THEN 201 ELSE 200,
                  apiKeys |-> getApiKeys(userId)'])
      /\ UNCHANGED <<userSubscriptions, socialStats, currentUserId,
                     currentSubscriptionId>>
      /\ UNCHANGED client

(***************************************************************************)
(* POST /api/subscription                                                  *)
(***************************************************************************)
\* the HMAC-SHA256 of `${order_id}|${payment_id}` under the key secret
Hmac(order_id, payment_id) == order_id \o "|" \o payment_id

\* variant: a verification that accepts every signature
verifyAcceptsAll(params) == TRUE

verifyPaymentSignature(params) ==
  Hmac(params.order_id, params.payment_id) = params.signature

\* calendar dates of the local time zone; months are 1..12 here (0..11 in
\* the Date API)
Date(year, month, day) == [year |-> year, month |-> month, day |-> day]

IsLeap(year) == year % 4 = 0 /\ (year % 100 # 0 \/ year % 400 = 0)

DaysInMonth(year, month) ==
  IF month = 2 THEN (IF IsLeap(year) THEN 29 ELSE 28)
  ELSE IF month \in {4, 6, 9, 11} THEN 30 ELSE 31

\* MakeDay of the Date API: a month beyond December moves into the next
\* year, a day beyond the end of the month moves into the next month
MakeDay(year, month, day) ==
  LET y == year + (month - 1) \div 12
      m == ((month - 1) % 12) + 1
      dim == DaysInMonth(y, m)
  IN  IF day <= dim THEN Date(y, m, day)
      ELSE IF m = 12 THEN Date(y + 1, 1, day - dim)
      ELSE Date(y, m + 1, day - dim)

\* variant: a month added with the day clamped to the end of the month
setMonthClamped(date, month) ==
  LET y == date.year + (month - 1) \div 12
      m == ((month - 1) % 12) + 1
  IN  Date(y, m, Min(date.day, DaysInMonth(y, m)))

\* Date.prototype.setMonth / setFullYear
setMonth(date, month) == MakeDay(date.year, month, date.day)
setFullYear(date, year) == MakeDay(year, date.month, date.day)

\* the day on which the subscription requests of the readers are made
ReaderDates == {Date(2025, 1, 15)}
\* days on which the subscription requests of the account clients are made
RequestDates == {Date(2025, 1, 15), Date(2025, 1, 31)}

PostSubscription(userId, plan, paymentId, orderId, signature, now) ==
  LET request == [route |-> "POST /api/subscription", userId |-> userId,
                  plan |-> plan, paymentId |-> paymentId, orderId |-> orderId,
                  signature |-> signature, now |-> now]
      startDate == now
      endDate == IF plan = "monthly" THEN setMonth(now, now.month + 1)
                 ELSE setFullYear(now, now.year + 1)
  IN  /\ pc = "idle"
      /\ IF userId = 0 \/ plan = "" \/ paymentId = "" \/ orderId = ""
         THEN /\ Respond(request, [status |-> 400])
              /\ UNCHANGED store
         ELSE IF /\ signature # ""
                 /\ ~verifyPaymentSignature([order_id |-> orderId,
                       payment_id |-> paymentId, signature |-> signature])
         THEN /\ Respond(request, [status |-> 400])
              /\ UNCHANGED store
         ELSE IF plan \notin {"monthly", "annual"}
         THEN /\ Respond(request, [status |-> 400])
              /\ UNCHANGED store
         ELSE /\ currentSubscriptionId <= MaxSubs
              /\ userSubscriptions' = createSubscription(
                   [userId |-> userId, plan |-> plan, paymentId |-> paymentId,
                    startDate |-> startDate, endDate |-> endDate,
                    status |-> "active"])
              /\ currentSubscriptionId' = currentSubscriptionId + 1
              /\ users' = updateUser(userId, [isPro |-> TRUE])
              /\ Respond(request, [status |-> 201,
                                   subscription |-> userSubscriptions'[currentSubscriptionId]])
              /\ UNCHANGED <<platformApiKeys, socialStats, currentUserId,
                             currentApiKeyId>>
      /\ UNCHANGED client

(***************************************************************************)
(* POST /api/orders                                                        *)
(***************************************************************************)
\* Math.round(amount * 100) of 9.99 and of 89.99
calculateAmount(plan) == IF plan = "monthly" THEN 999 ELSE 8999

\* created: razorpayService.createOrder got its order from the gateway
PostOrders(plan, created) ==
  LET request == [route |-> "POST /api/orders", plan |-> plan]
  IN  /\ pc = "idle"
      /\ UNCHANGED store
      /\ IF plan = "" THEN Respond(request, [status |-> 400])
         ELSE IF plan \notin {"monthly", "annual"}
         THEN Respond(request, [status |-> 400])
         ELSE IF ~created THEN Respond(request, [status |-> 500])
         ELSE Respond(request, [status |-> 200,
                                order |-> [id |-> "o1",
                                           amount |-> calculateAmount(plan),
                                           currency |-> "USD"]])
      /\ UNCHANGED client

(***************************************************************************)
(* GET /api/apikeys                                                        *)
(***************************************************************************)
GetApiKeys(rawUserId) ==
  LET userId == NumberOr(rawUserId, 0)
      request == [route |-> "GET /api/apikeys", userId |-> userId]
      apiKeys == getApiKeys(userId)
  IN  /\ pc = "idle"
      /\ UNCHANGED store
      /\ IF userId = 0 THEN Respond(request, [status |-> 400])
         ELSE IF apiKeys = NoKeys THEN Respond(request, NotFound)
         ELSE Respond(request, [status |-> 200, apiKeys |-> apiKeys])
      /\ UNCHANGED client

(***************************************************************************)
(* GET /api/user                                                           *)
(***************************************************************************)
GetUser(rawUserId) ==
  LET userId == NumberOr(rawUserId, DefaultUserId)
      request == [route |-> "GET /api/user", userId |-> userId]
      user == getUser(userId)
  IN  /\ pc = "idle"
      /\ UNCHANGED store
      /\ IF user = NoUser THEN Respond(request, NotFound)
         ELSE Respond(request, [status |-> 200, user |-> user])
      /\ UNCHANGED client

(***************************************************************************)
(* GET /api/subscription                                                   *)
(***************************************************************************)
GetSubscription(rawUserId) ==
  LET userId == NumberOr(rawUserId, 0)
      request == [route |-> "GET /api/subscription", userId |-> userId]
      subscription == getSubscription(userId)
  IN  /\ pc = "idle"
      /\ UNCHANGED store
      /\ IF userId = 0 THEN Respond(request, [status |-> 400])
         ELSE IF subscription = NoSub THEN Respond(request, NotFound)
         ELSE Respond(request, [status |-> 200, subscription |-> subscription])
      /\ UNCHANGED client

(***************************************************************************)
(* A call of SocialMediaApiServiceFactory.getService on its own.           *)
(***************************************************************************)
CallGetService(platform) ==
  LET service == getService(platform)
  IN  /\ pc = "idle"
      /\ UNCHANGED store
      /\ Respond([route |-> "getService", platform |-> platform],
                 IF service = "unsupported"
                 THEN [status |-> 500, error |-> "Unsupported platform"]
                 ELSE [status |-> 200, service |-> service])
      /\ UNCHANGED client

(***************************************************************************)
(* MemStorage.getPosts: sort and pagination.                               *)
(***************************************************************************)
\* Array.prototype.sort is stable: an element goes behind every element the
\* comparator (b.datePosted - a.datePosted) does not order after it
\* variant: a sort that puts a post before the posts of its own date
InsertBeforeEqual(sorted, post) ==
  LET n == Cardinality({i \in 1..Len(sorted) :
                          sorted[i].datePosted > post.datePosted})
  IN  SubSeq(sorted, 1, n) \o <<post>> \o SubSeq(sorted, n + 1, Len(sorted))

InsertByDate(sorted, post) ==
  LET n == Cardinality({i \in 1..Len(sorted) :
                          sorted[i].datePosted >= post.datePosted})
  IN  SubSeq(sorted, 1, n) \o <<post>> \o SubSeq(sorted, n + 1, Len(sorted))

RECURSIVE SortPrefix(_, _)
SortPrefix(posts, n) ==
  IF n = 0 THEN << >>
  ELSE CHOOSE result \in {InsertByDate(sorted, posts[n]) :
                            sorted \in {SortPrefix(posts, n - 1)}} : TRUE

sortByDatePosted(allPosts) == SortPrefix(allPosts, Len(allPosts))

\* Array.prototype.slice(start, end), negative indices counting from the end
RelativeIndex(i, len) == IF i < 0 THEN Max(len + i, 0) ELSE Min(i, len)

slice(array, start, end) ==
  SubSeq(array, RelativeIndex(start, Len(array)) + 1,
                RelativeIndex(end, Len(array)))

\* variant: pages counted from zero
startIndexFromZero(page, limit) == page * limit

startIndex(page, limit) == (page - 1) * limit
endIndex(page, limit) == startIndex(page, limit) + limit

\* the value getPosts returns once allPosts is gathered
paginate(allPosts, page, limit) ==
  LET sorted == sortByDatePosted(allPosts)
  IN  [posts |-> slice(sorted, startIndex(page, limit), endIndex(page, limit)),
       total |-> Len(allPosts)]

\* Math.ceil(total / limit), limit # 0
totalPages(total, limit) ==
  IF limit > 0 THEN (total + limit - 1) \div limit
  ELSE 0 - (total \div (0 - limit))

\* stats.posts.map(post => ({ ...post, isConnected }))
TagPosts(posts, isConnected) ==
  [i \in 1..Len(posts) |-> [isConnected |-> isConnected] @@ posts[i]]

(***************************************************************************)
(* GET /api/stats and GET /api/posts: parsing, gate, start of the reads.   *)
(***************************************************************************)
\* entry of storage.getPlatformStats(userId, platform, days) from a handler
\* or from the loop of getAllPlatformStats / getPosts
BeginRead(userId, platform, days) ==
  /\ depth' = 0 /\ ret' = NoStats /\ fetches' = 0 /\ firstFailed' = FALSE
  /\ hadKey' = (KeyOf(getApiKeys(userId), platform) # "")
  /\ before' = CacheGet(socialStats, Key(userId, platform, days))

GetStats(rawUserId, rawDays, rawPlatform) ==
  LET userId == NumberOr(rawUserId, DefaultUserId)
      days == NumberOr(rawDays, DefaultDays)
      single == rawPlatform # "" /\ rawPlatform # "all"
      platforms == IF single THEN <<rawPlatform>> ELSE Platforms
      request == [route |-> "GET /api/stats", userId |-> userId, days |-> days,
                  platforms |-> platforms,
                  call |-> IF single THEN "getPlatformStats"
                           ELSE "getAllPlatformStats"]
      user == getUser(userId)
  IN  /\ pc = "idle"
      /\ UNCHANGED store
      /\ IF user = NoUser THEN Respond(request, NotFound)
         ELSE IF GateDenies(user, days) THEN Respond(request, Denied)
         ELSE /\ req' = request /\ resp' = NoResp /\ pc' = "store"
              /\ apiKeys0' = getApiKeys(userId) /\ idx' = 1 /\ acc' = << >>
              /\ BeginRead(userId, platforms[1], days)
      /\ UNCHANGED client

\* page and limit are parsed here too, but nothing reads them before getPosts
\* slices: they are drawn in PostsReturns, where they are first used
GetPosts(rawUserId, rawDays, rawPlatform) ==
  LET userId == NumberOr(rawUserId, DefaultUserId)
      days == NumberOr(rawDays, DefaultDays)
      platform == IF rawPlatform = "" THEN "all" ELSE rawPlatform
      platforms == IF platform = "all" THEN Platforms ELSE <<platform>>
      request == [route |-> "GET /api/posts", userId |-> userId, days |-> days,
                  platforms |-> platforms, call |-> "getPosts"]
      user == getUser(userId)
  IN  /\ pc = "idle"
      /\ UNCHANGED store
      /\ IF user = NoUser THEN Respond(request, NotFound)
         ELSE IF GateDenies(user, days) THEN Respond(request, Denied)
         ELSE /\ req' = request /\ resp' = NoResp /\ pc' = "store"
              /\ apiKeys0' = getApiKeys(userId) /\ idx' = 1 /\ acc' = << >>
              /\ BeginRead(userId, platforms[1], days)
      /\ UNCHANGED client

(***************************************************************************)
(* MemStorage.getPlatformStats and the adapter it calls.  The adapter's    *)
(* catch block calls storage.getPlatformStats again, so store frames and   *)
(* adapter frames alternate on the call stack: depth counts the adapter    *)
(* frames, all of which but the top one wait in their catch block.         *)
(***************************************************************************)
Platform == req.platforms[idx]
CacheKey == Key(req.userId, Platform, req.days)

\* variant: a store frame that calls the adapter without looking for a
\* credential
StoreEnterAlwaysFetch ==
  /\ pc = "store"
  /\ IF getService(Platform) # "unsupported"
     THEN /\ pc' = "adapter"
          /\ depth' = Min(depth + 1, MaxDepth)
          /\ fetches' = Min(fetches + 1, MaxDepth)
          /\ UNCHANGED ret
     ELSE /\ pc' = "storeDone"
          /\ ret' = CacheGet(socialStats, CacheKey)
          /\ UNCHANGED <<depth, fetches>>
  /\ UNCHANGED <<store, req, resp, loop, hadKey, before, firstFailed>>
  /\ UNCHANGED client

\* a store frame starts: credential lookup, then the adapter or the cache
StoreEnter ==
  LET apiKey == KeyOf(getApiKeys(req.userId), Platform)
  IN  /\ pc = "store"
      /\ IF apiKey # "" /\ getService(Platform) # "unsupported"
         THEN /\ pc' = "adapter"
              /\ depth' = Min(depth + 1, MaxDepth)
              /\ fetches' = Min(fetches + 1, MaxDepth)
              /\ UNCHANGED ret
         ELSE /\ pc' = "storeDone"
              /\ ret' = CacheGet(socialStats, CacheKey)
              /\ UNCHANGED <<depth, fetches>>
      /\ UNCHANGED <<store, req, resp, loop, hadKey, before, firstFailed>>
      /\ UNCHANGED client

\* the outbound calls of the YouTube adapter all succeed
FetchSucceeds ==
  /\ pc = "adapter" /\ CanSucceed(getService(Platform))
  /\ \E variant \in LiveVariants : ret' = youtubeLive(variant, Now)
  /\ pc' = "adapterDone"
  /\ UNCHANGED <<store, req, resp, loop, depth, fetches, hadKey, before,
                 firstFailed>>
  /\ UNCHANGED client

\* an outbound call fails, or the adapter is one of the stubs: the catch
\* block awaits storage.getPlatformStats(userId, platform, days)
FetchFails ==
  /\ pc = "adapter"
  /\ pc' = "store"
  /\ firstFailed' = (firstFailed \/ fetches = 1)
  /\ UNCHANGED <<store, req, resp, loop, depth, ret, fetches, hadKey,
                 before>>
  /\ UNCHANGED client

\* the store read awaited by a catch block returned: the adapter answers
\* with the annotated entry, or rethrows when there is none; the counter
\* stays at MaxDepth while more than MaxDepth adapter frames are stacked
AdapterCatch ==
  /\ pc = "storeDone" /\ depth >= 1
  /\ ret' = AdapterFallback(ret, Now)
  /\ pc' = "adapterCaught"
  /\ UNCHANGED <<store, req, resp, loop, depth, fetches, hadKey, before,
                 firstFailed>>
  /\ UNCHANGED client

\* the adapter call of a store frame ended: cache and return what it
\* returned, or fall back to the cache when it threw
StoreResume ==
  /\ pc \in {"adapterDone", "adapterCaught"}
  /\ IF ret # Thrown
     THEN /\ socialStats' = CacheSet(socialStats, CacheKey, ret)
          /\ UNCHANGED ret
     ELSE /\ ret' = CacheGet(socialStats, CacheKey)
          /\ UNCHANGED socialStats
  /\ depth' = depth - 1
  /\ pc' = "storeDone"
  /\ UNCHANGED <<users, platformApiKeys, userSubscriptions, currentUserId,
                 currentApiKeyId, currentSubscriptionId, req, resp,
                 loop, fetches, hadKey, before, firstFailed>>
  /\ UNCHANGED client

(***************************************************************************)
(* The outermost store frame returns to its caller.                        *)
(***************************************************************************)
ReadReturned == pc = "storeDone" /\ depth = 0

\* what the loop of getAllPlatformStats / getPosts adds for one platform
Collected ==
  IF ret = NoStats THEN acc
  ELSE IF req.call = "getPosts"
       THEN acc \o TagPosts(ret.posts, Connected(apiKeys0, Platform))
       ELSE Append(acc, [isConnected |-> Connected(apiKeys0, Platform)] @@ ret)

\* GET /api/stats?platform=<p>: answer with the entry, or 404
StatsReturns ==
  /\ ReadReturned /\ req.call = "getPlatformStats"
  /\ resp' = IF ret = NoStats THEN NotFound
             ELSE [status |-> 200, stats |-> ret]
  /\ pc' = "done"
  /\ UNCHANGED <<store, req, loop, read>>
  /\ UNCHANGED client

\* the loop goes on to the next platform
LoopNext ==
  /\ ReadReturned /\ req.call # "getPlatformStats" /\ idx < Len(req.platforms)
  /\ acc' = Collected
  /\ idx' = idx + 1
  /\ BeginRead(req.userId, req.platforms[idx + 1], req.days)
  /\ pc' = "store"
  /\ UNCHANGED <<store, req, resp, apiKeys0>>
  /\ UNCHANGED client

\* getAllPlatformStats returns the collected list
AllStatsReturns ==
  /\ ReadReturned /\ req.call = "getAllPlatformStats" /\ idx = Len(req.platforms)
  /\ acc' = Collected
  /\ resp' = [status |-> 200, stats |-> acc']
  /\ pc' = "done"
  /\ UNCHANGED <<store, req, apiKeys0, idx, read>>
  /\ UNCHANGED client

\* getPosts sorts and slices; the handler adds the pagination object
PostsReturns(rawPage, rawLimit) ==
  /\ ReadReturned /\ req.call = "getPosts" /\ idx = Len(req.platforms)
  /\ LET page == NumberOr(rawPage, DefaultPage)
         limit == NumberOr(rawLimit, DefaultLimit)
         result == paginate(Collected, page, limit)
     IN  /\ acc' = Collected
         /\ req' = [page |-> page, limit |-> limit] @@ req
         /\ resp' = [status |-> 200, posts |-> result.posts,
                     pagination |-> [page |-> page, limit |-> limit,
                                     total |-> result.total,
                                     totalPages |->
                                       totalPages(result.total, limit)]]
  /\ pc' = "done"
  /\ UNCHANGED <<store, apiKeys0, idx, read>>
  /\ UNCHANGED client

\* the response is sent; the server is ready for the next request
Finish ==
  /\ pc = "done"
  /\ req' = NoReq /\ resp' = NoResp /\ pc' = "idle"
  /\ apiKeys0' = NoKeys /\ idx' = 0 /\ acc' = << >>
  /\ depth' = 0 /\ ret' = NoStats /\ fetches' = 0
  /\ hadKey' = FALSE /\ before' = NoStats /\ firstFailed' = FALSE
  /\ UNCHANGED store
  /\ UNCHANGED client

Next ==
  \/ \E firebaseUid \in ReaderUids, extra \in UserExtras :
       PostUser(firebaseUid, extra)
  \/ \E userId \in ReaderIds, platform \in KeyPlatforms, value \in KeyValues :
       PostApiKeys(userId, platform, value)
  \/ \E userId \in {0} \cup ReaderIds, plan \in {"monthly", "weekly"},
        signature \in {"", Hmac("o1", "p1"), Hmac("o1", "p2")},
        now \in ReaderDates :
       PostSubscription(userId, plan, "p1", "o1", signature, now)
  \/ \E rawUserId \in RawUserIds, rawDays \in RawDays,
        rawPlatform \in StatsPlatforms :
       GetStats(rawUserId, rawDays, rawPlatform)
  \/ \E rawUserId \in RawUserIds, rawDays \in RawDays,
        rawPlatform \in PostsPlatforms :
       GetPosts(rawUserId, rawDays, rawPlatform)
  \/ \E rawUserId \in RawUserIds : GetUser(rawUserId)
  \/ \E rawUserId \in RawUserIds : GetApiKeys(rawUserId)
  \/ \E rawUserId \in RawUserIds : GetSubscription(rawUserId)
  \/ StoreEnter
  \/ FetchSucceeds
  \/ FetchFails
  \/ AdapterCatch
  \/ StoreResume
  \/ StatsReturns
  \/ LoopNext
  \/ AllStatsReturns
  \/ \E rawPage \in RawPages, rawLimit \in RawLimits :
       PostsReturns(rawPage, rawLimit)
  \/ Finish

Spec == Init /\ [][Next]_vars

(***************************************************************************)
(* The requests on users and credentials on their own, with two            *)
(* identities, and the factory called on its own: no stats reads.          *)
(***************************************************************************)
CredentialNext ==
  \/ \E firebaseUid \in FirebaseUids, extra \in UserExtras :
       PostUser(firebaseUid, extra)
  \/ \E userId \in 1..MaxUsers, platform \in KeyPlatforms, value \in KeyValues :
       PostApiKeys(userId, platform, value)
  \/ \E rawUserId \in RawUserIds : GetApiKeys(rawUserId)
  \/ \E platform \in PlatformSet \cup {"tiktok", "all", ""} :
       CallGetService(platform)
  \/ Finish

CredentialSpec == Init /\ [][CredentialNext]_vars

(***************************************************************************)
(* The requests on users and subscriptions on their own, with two          *)
(* identities.                                                             *)
(***************************************************************************)
SubscriptionNext ==
  \/ \E firebaseUid \in FirebaseUids, extra \in UserExtras :
       PostUser(firebaseUid, extra)
  \/ \E userId \in 0..MaxUsers, plan \in {"monthly", "annual", "weekly"},
        paymentId \in {"p1", ""},
        signature \in {"", Hmac("o1", "p1"), Hmac("o1", "p2")},
        now \in RequestDates :
       PostSubscription(userId, plan, paymentId, "o1", signature, now)
  \/ \E rawUserId \in RawUserIds : GetUser(rawUserId)
  \/ \E rawUserId \in RawUserIds : GetSubscription(rawUserId)
  \/ Finish

SubscriptionSpec == Init /\ [][SubscriptionNext]_vars

\* The request being served always takes its next step: a continuation that
\* is ready runs, and an outbound call settles, with a result or an error.
Serve ==
  \/ StoreEnter \/ FetchSucceeds \/ FetchFails \/ AdapterCatch \/ StoreResume
  \/ StatsReturns \/ LoopNext \/ AllStatsReturns
  \/ \E rawPage \in RawPages, rawLimit \in RawLimits :
       PostsReturns(rawPage, rawLimit)

\* An outbound call that is tried again and again does not fail every time:
\* what keeps a read from returning is then the code, not the network.
FairSpec == Spec /\ WF_vars(Serve) /\ SF_vars(FetchSucceeds)

(***************************************************************************)
(* Client: the Posts page.  Its query asks GET /api/posts for the page of  *)
(* the current platform, window and page number.                           *)
(***************************************************************************)
DayTimes == {0, 1, millisecondsPerDay \div 2, millisecondsPerDay - 1}
Instants == {Instant(d, ms) : d \in 0..MaxDay, ms \in DayTimes}
DateRangeOptions == {"7d", "30d", "custom"}
PlatformChoices == {"all"} \cup PlatformSet

Later(a, b) == a.day > b.day \/ (a.day = b.day /\ a.ms > b.ms)

Sum(f, keys) ==
  LET RECURSIVE Add(_)
      Add(rest) == IF rest = {} THEN 0
                   ELSE LET k == CHOOSE x \in rest : TRUE
                        IN  f[k] + Add(rest \ {k})
  IN  Add(keys)

\* total of the answer for a platform choice and a date-range option: as
\* many posts as the seeded entries of the option's window hold
PostsTotal(choice, option) ==
  LET held == [p \in PlatformSet |->
                 CASE option = "7d" -> Len(sampleData(0)[p].posts)
                   [] option = "30d" -> Len(thirtyDayData(0)[p].posts)
                   [] OTHER -> 0]
  IN  IF choice = "all" THEN Sum(held, PlatformSet) ELSE held[choice]

\* const days = getDaysInRange(getDateRangeFromOption(dateRange))
PageDays == getDaysInRange(getDateRangeFromOption(postsPage.dateRange, today))

\* res.json() of a 200 answer: the number of posts on the page and the
\* pagination object
PostsAnswer ==
  LET total == PostsTotal(postsPage.platform, postsPage.dateRange)
      first == startIndex(postsPage.page, postsPage.limit)
      last == Min(total, endIndex(postsPage.page, postsPage.limit))
  IN  [state |-> "success", days |-> PageDays,
       posts |-> Max(0, last - first),
       pagination |-> [page |-> postsPage.page, limit |-> postsPage.limit,
                       total |-> total,
                       totalPages |-> totalPages(total, postsPage.limit)]]

\* the table and its buttons are rendered: filteredPosts is not empty
TableShown == postsPage.data.state = "success" /\ postsPage.data.posts > 0

PageAlone == UNCHANGED <<server, firebaseUser, auth, syncs, modal>>

\* time passes
Tick ==
  /\ \E t \in Instants : Later(t, today) /\ today' = t
  /\ UNCHANGED postsPage
  /\ PageAlone

setPlatform(value) ==
  /\ value # postsPage.platform
  /\ postsPage' = [postsPage EXCEPT !.platform = value, !.data = Loading]
  /\ UNCHANGED today /\ PageAlone

setDateRange(value) ==
  /\ value # postsPage.dateRange
  /\ postsPage' = [postsPage EXCEPT !.dateRange = value, !.data = Loading]
  /\ UNCHANGED today /\ PageAlone

ClickPrevious ==
  /\ TableShown /\ postsPage.page # 1
  /\ postsPage' = [postsPage EXCEPT !.page = @ - 1, !.data = Loading]
  /\ UNCHANGED today /\ PageAlone

ClickNext ==
  /\ TableShown /\ postsPage.page # postsPage.data.pagination.totalPages
  /\ postsPage' = [postsPage EXCEPT !.page = @ + 1, !.data = Loading]
  /\ UNCHANGED today /\ PageAlone

\* the query of the current key settles: res.ok and the body, or an error
QuerySettles(ok) ==
  /\ postsPage.data = Loading
  /\ postsPage' = [postsPage EXCEPT
                     !.data = IF ok THEN PostsAnswer
                              ELSE [state |-> "error", days |-> PageDays]]
  /\ UNCHANGED today /\ PageAlone

PostsPageNext ==
  \/ Tick
  \/ \E value \in PlatformChoices : setPlatform(value)
  \/ \E value \in DateRangeOptions : setDateRange(value)
  \/ ClickPrevious
  \/ ClickNext
  \/ \E ok \in BOOLEAN : QuerySettles(ok)

PostsPageSpec == Init /\ [][PostsPageNext]_vars

(***************************************************************************)
(* Client: the useAuth hook.  A syncUserWithBackend call is in flight from *)
(* its first fetch until its last continuation has run; the backend        *)
(* handles each of its requests in one step, and the continuation that     *)
(* reads the answer runs later, after whatever else happened meanwhile.    *)
(***************************************************************************)
SyncSlots == 1..MaxSyncs
InFlight(s) == syncs[s] # NoSync
FreeSlots == {s \in SyncSlots : ~InFlight(s)}
FreeSlot == CHOOSE s \in FreeSlots : \A t \in FreeSlots : s <= t

AuthAlone == UNCHANGED <<today, postsPage, modal>>

\* syncUserWithBackend(firebaseUid) is called: GET /api/auth/check is sent
StartSync(firebaseUid, observer) ==
  /\ FreeSlots # {}
  /\ syncs' = [syncs EXCEPT ![FreeSlot] =
                 [stage |-> "check", firebaseUid |-> firebaseUid,
                  observer |-> observer]]

\* the call ended: the slot is free, and the observer that awaited the call
\* goes on to setIsInitializing(false)
Settle(s, user, isAuthenticated) ==
  /\ syncs' = [syncs EXCEPT ![s] = NoSync]
  /\ auth' = [user |-> user, isAuthenticated |-> isAuthenticated,
              isInitializing |-> IF syncs[s].observer THEN FALSE
                                 ELSE auth.isInitializing]

\* the provider signs a user in and the observer is told
ObserverSignedIn(firebaseUid) ==
  /\ firebaseUser # firebaseUid
  /\ firebaseUser' = firebaseUid
  /\ StartSync(firebaseUid, TRUE)
  /\ UNCHANGED <<server, auth>> /\ AuthAlone

\* signInWithEmail resolved with result.user: the handler syncs as well
handleSignInWithEmail(firebaseUid) ==
  /\ firebaseUser = firebaseUid
  /\ StartSync(firebaseUid, FALSE)
  /\ UNCHANGED <<server, auth, firebaseUser>> /\ AuthAlone

\* the provider reports the signed-out state to the observer
ObserverSignedOut ==
  /\ firebaseUser # NoFirebaseUser
  /\ firebaseUser' = NoFirebaseUser
  /\ auth' = [user |-> NoUser, isAuthenticated |-> FALSE,
              isInitializing |-> FALSE]
  /\ UNCHANGED <<server, syncs>> /\ AuthAlone

\* firebaseSignOut() completes (the observer hears of it if a user was
\* signed in), then setUser(null) and setIsAuthenticated(false)
handleSignOut ==
  /\ firebaseUser' = NoFirebaseUser
  /\ auth' = [user |-> NoUser, isAuthenticated |-> FALSE,
              isInitializing |-> IF firebaseUser # NoFirebaseUser THEN FALSE
                                 ELSE auth.isInitializing]
  /\ UNCHANGED <<server, syncs>> /\ AuthAlone

\* GET /api/auth/check is served
AuthCheckServed(s) ==
  LET user == getUserByFirebaseUid(syncs[s].firebaseUid)
  IN  /\ InFlight(s) /\ syncs[s].stage = "check"
      /\ syncs' = [syncs EXCEPT ![s] =
                     [stage |-> "checked", firebaseUid |-> @.firebaseUid,
                      observer |-> @.observer,
                      data |-> [authenticated |-> user # NoUser,
                                user |-> user]]]
      /\ UNCHANGED <<server, firebaseUser, auth>> /\ AuthAlone

\* the continuation after `await response.json()`
SyncChecked(s) ==
  /\ InFlight(s) /\ syncs[s].stage = "checked"
  /\ IF syncs[s].data.authenticated
     THEN Settle(s, syncs[s].data.user, TRUE)
     ELSE IF firebaseUser # NoFirebaseUser
     THEN /\ syncs' = [syncs EXCEPT ![s] =
                         [stage |-> "create", firebaseUid |-> firebaseUser,
                          observer |-> @.observer]]
          /\ UNCHANGED auth
     ELSE Settle(s, auth.user, auth.isAuthenticated)
  /\ UNCHANGED <<server, firebaseUser>> /\ AuthAlone

\* POST /api/user is served
UserPostServed(s) ==
  LET validatedData == insertUserSchema([firebaseUid |-> syncs[s].firebaseUid])
      existingUser == getUserByFirebaseUid(syncs[s].firebaseUid)
      answered(user) == [stage |-> "created",
                         firebaseUid |-> syncs[s].firebaseUid,
                         observer |-> syncs[s].observer, data |-> user]
  IN  /\ InFlight(s) /\ syncs[s].stage = "create"
      /\ IF existingUser # NoUser
         THEN /\ users' = updateUser(existingUser.id, validatedData)
              /\ UNCHANGED currentUserId
              /\ syncs' = [syncs EXCEPT ![s] = answered(users'[existingUser.id])]
         ELSE /\ currentUserId <= MaxUsers
              /\ users' = createUser(validatedData)
              /\ currentUserId' = currentUserId + 1
              /\ syncs' = [syncs EXCEPT ![s] = answered(users'[currentUserId])]
      /\ UNCHANGED <<platformApiKeys, userSubscriptions, socialStats,
                     currentApiKeyId, currentSubscriptionId, req, resp, pc,
                     loop, read, firebaseUser, auth>>
      /\ AuthAlone

\* the continuation after `await createResponse.json()`
SyncCreated(s) ==
  /\ InFlight(s) /\ syncs[s].stage = "created"
  /\ Settle(s, syncs[s].data, TRUE)
  /\ UNCHANGED <<server, firebaseUser>> /\ AuthAlone

\* a fetch of the call is rejected: the catch block shows a toast
SyncFails(s) ==
  /\ InFlight(s)
  /\ Settle(s, auth.user, auth.isAuthenticated)
  /\ UNCHANGED <<server, firebaseUser>> /\ AuthAlone

AuthNext ==
  \/ \E firebaseUid \in FirebaseUids : ObserverSignedIn(firebaseUid)
  \/ \E firebaseUid \in FirebaseUids : handleSignInWithEmail(firebaseUid)
  \/ ObserverSignedOut
  \/ handleSignOut
  \/ \E s \in SyncSlots : AuthCheckServed(s)
  \/ \E s \in SyncSlots : SyncChecked(s)
  \/ \E s \in SyncSlots : UserPostServed(s)
  \/ \E s \in SyncSlots : SyncCreated(s)
  \/ \E s \in SyncSlots : SyncFails(s)

AuthSpec == Init /\ [][AuthNext]_vars

(***************************************************************************)
(* Client: the upgrade dialog.  handlePayment runs from the click to its   *)
(* finally block; modal.at is the await it stands at, and modal.run holds  *)
(* what the closure of the run captured (user, plan) and received.  The    *)
(* backend serves the request of the run with the handlers above; the      *)
(* continuation of the run takes the response.                             *)
(***************************************************************************)
Plans == {"monthly", "annual"}

ModalAlone == UNCHANGED <<today, postsPage, firebaseUser, syncs>>

\* the response is taken off the connection
Consume(route) ==
  /\ pc = "done" /\ req.route = route
  /\ req' = NoReq /\ resp' = NoResp /\ pc' = "idle"
  /\ UNCHANGED <<store, loop, read>>

\* catch (toast) and finally, or finally alone
RunEnds ==
  modal' = [modal EXCEPT !.isProcessing = FALSE, !.at = "idle", !.run = NoRun]

\* script.onload of checkout.js
ScriptLoaded ==
  /\ ~modal.isLoaded
  /\ modal' = [modal EXCEPT !.isLoaded = TRUE]
  /\ UNCHANGED <<server, auth>> /\ ModalAlone

setSelectedPlan(plan) ==
  /\ plan # modal.selectedPlan
  /\ modal' = [modal EXCEPT !.selectedPlan = plan]
  /\ UNCHANGED <<server, auth>> /\ ModalAlone

\* the click on the upgrade button: the two early returns, or
\* setIsProcessing(true) and the POST /api/orders of createOrder
handlePayment ==
  /\ ~modal.isProcessing
  /\ currentSubscriptionId <= MaxSubs
  /\ IF auth.user = NoUser \/ ~modal.isLoaded
     THEN UNCHANGED modal
     ELSE modal' = [modal EXCEPT !.isProcessing = TRUE, !.at = "createOrder",
                                 !.run = [user |-> auth.user,
                                          plan |-> modal.selectedPlan]]
  /\ UNCHANGED <<server, auth>> /\ ModalAlone

\* createOrder returns or throws; with an order, initPayment opens the
\* checkout widget
OrderAnswered ==
  /\ modal.at = "createOrder"
  /\ Consume("POST /api/orders")
  /\ IF resp.status = 200
     THEN modal' = [modal EXCEPT !.at = "widget",
                                 !.run = [order |-> resp.order] @@ @]
     ELSE RunEnds
  /\ UNCHANGED auth /\ ModalAlone

\* the widget calls the handler: initPayment resolves, and the run sends
\* POST /api/subscription
WidgetSuccess(paymentId) ==
  /\ modal.at = "widget"
  /\ modal' = [modal EXCEPT
                 !.at = "subscription",
                 !.run = [payment |->
                            [razorpay_payment_id |-> paymentId,
                             razorpay_order_id |-> modal.run.order.id,
                             razorpay_signature |->
                               Hmac(modal.run.order.id, "p1")]] @@ @]
  /\ UNCHANGED <<server, auth>> /\ ModalAlone

\* payment.failed: initPayment rejects
WidgetFailed ==
  /\ modal.at = "widget"
  /\ RunEnds
  /\ UNCHANGED <<server, auth>> /\ ModalAlone

\* the user closes the widget: neither callback is called, and the promise
\* of initPayment stays pending
WidgetClosed ==
  /\ modal.at = "widget"
  /\ modal' = [modal EXCEPT !.at = "widgetClosed"]
  /\ UNCHANGED <<server, auth>> /\ ModalAlone

\* response.ok: refreshUser sends GET /api/user; otherwise the run throws
SubscriptionAnswered ==
  /\ modal.at = "subscription"
  /\ Consume("POST /api/subscription")
  /\ IF resp.status = 201
     THEN modal' = [modal EXCEPT !.at = "refreshUser"]
     ELSE RunEnds
  /\ UNCHANGED auth /\ ModalAlone

\* refreshUser: setUser(userData); then invalidateQueries, onClose, finally
RefreshAnswered ==
  /\ modal.at = "refreshUser"
  /\ Consume("GET /api/user")
  /\ auth' = [auth EXCEPT !.user = IF resp.status = 200 THEN resp.user
                                   ELSE NoUser]
  /\ RunEnds
  /\ ModalAlone

\* the requests of the run, as the backend serves them
OrderServed ==
  /\ modal.at = "createOrder"
  /\ \E created \in BOOLEAN : PostOrders(modal.run.plan, created)

SubscriptionServed ==
  /\ modal.at = "subscription"
  /\ \E now \in ReaderDates :
       PostSubscription(modal.run.user.id, modal.run.plan,
                        modal.run.payment.razorpay_payment_id,
                        modal.run.payment.razorpay_order_id,
                        modal.run.payment.razorpay_signature, now)

RefreshServed ==
  /\ modal.at = "refreshUser"
  /\ GetUser(Num(modal.run.user.id))

\* what a run in progress awaits settles: the backend answers, the widget
\* ends in one of its three ways
PaymentStep ==
  \/ OrderServed \/ OrderAnswered
  \/ \E paymentId \in {"p1", "p2"} : WidgetSuccess(paymentId)
  \/ WidgetFailed \/ WidgetClosed
  \/ SubscriptionServed \/ SubscriptionAnswered
  \/ RefreshServed \/ RefreshAnswered

PaymentNext ==
  \/ ScriptLoaded
  \/ \E plan \in Plans : setSelectedPlan(plan)
  \/ handlePayment
  \/ PaymentStep
  \/ \E firebaseUid \in ReaderUids :
       FreeSlots = SyncSlots /\ ObserverSignedIn(firebaseUid)
  \/ ObserverSignedOut
  \/ \E s \in SyncSlots : AuthCheckServed(s)
  \/ \E s \in SyncSlots : SyncChecked(s)
  \/ \E s \in SyncSlots : UserPostServed(s)
  \/ \E s \in SyncSlots : SyncCreated(s)

PaymentSpec == Init /\ [][PaymentNext]_vars

FairPaymentSpec == PaymentSpec /\ WF_vars(PaymentStep)

(***************************************************************************)
(* Vocabulary of the properties.                                           *)
(***************************************************************************)
Route == req.route
Call == IF "call" \in DOMAIN req THEN req.call ELSE "none"
Serving == pc \notin {"idle", "done"}
Answered == pc = "done"

\* equal in followers, views, engagement, the three growth values and posts
SameData(a, b) ==
  /\ a # NoStats /\ b # NoStats /\ a # Thrown /\ b # Thrown
  /\ a.platform = b.platform
  /\ a.followers = b.followers /\ a.followersGrowth = b.followersGrowth
  /\ a.views = b.views /\ a.viewsGrowth = b.viewsGrowth
  /\ a.engagement = b.engagement /\ a.engagementGrowth = b.engagementGrowth
  /\ a.posts = b.posts

Annotated(a) == a.isApiError /\ a.errorMessage # ""

(***************************************************************************)
(* C1  A read with a credential on file and a cached entry whose live      *)
(* fetch fails returns the cached entry, unchanged but for a refreshed     *)
(* lastUpdated and the error annotations.                                  *)
(***************************************************************************)
C1_FailedFetchReturnsCachedEntry ==
  (ReadReturned /\ hadKey /\ before # NoStats /\ firstFailed) =>
     /\ SameData(ret, before)
     /\ Annotated(ret)
     /\ ret.lastUpdated >= before.lastUpdated


(***************************************************************************)
(* C2  GET /api/stats and GET /api/posts for an existing non-pro user with *)
(* days > 7 are answered 403 with upgrade:true and nothing else, whatever  *)
(* the platform and the cache hold; a request with days = 7 is never       *)
(* answered 403.                                                           *)
(***************************************************************************)
IsRead == Route \in {"GET /api/stats", "GET /api/posts"}

C2_FreeTierGate ==
  IsRead =>
    /\ (getUser(req.userId) # NoUser /\ ~getUser(req.userId).isPro
        /\ req.days > FreeDays)
         => (Answered /\ resp = Denied)
    /\ req.days = 7 => resp.status # 403

C2_Witness ==
  /\ Answered /\ Route = "GET /api/stats" /\ req.days = 30
  /\ req.platforms = <<"youtube">>
  /\ Key(req.userId, "youtube", 30) \in DOMAIN socialStats
  /\ resp = Denied

(***************************************************************************)
(* C3  getAllPlatformStats always completes and returns a list, also when  *)
(* the live fetch of one platform fails.                                   *)
(***************************************************************************)
C3_AggregateCompletes ==
  (Serving /\ Call = "getAllPlatformStats") ~> Answered

(***************************************************************************)
(* C4  One getPlatformStats read performs at most one adapter fetch:       *)
(* exactly one with a credential on file, none without; a failed fetch is  *)
(* not retried within the read.                                            *)
(***************************************************************************)
C4_AtMostOneFetch ==
  /\ fetches <= 1
  /\ ReadReturned => fetches = (IF hadKey THEN 1 ELSE 0)

(***************************************************************************)
(* C5  A read changes the stored entry of its key only when its live fetch *)
(* succeeds, and then the stored entry is the fetched result it returns; a *)
(* read whose live fetch fails leaves counters, growth values and posts of *)
(* the stored entry unchanged.                                             *)
(***************************************************************************)
C5_CacheChangesOnlyOnSuccess ==
  ReadReturned =>
    LET stored == CacheGet(socialStats, CacheKey)
    IN  /\ stored # before => (hadKey /\ ~firstFailed /\ stored = ret)
        /\ (firstFailed /\ before # NoStats) => SameData(stored, before)

(***************************************************************************)
(* C6  Without a credential for the platform, getPlatformStats fetches     *)
(* nothing, returns the cached entry of its key as it is and leaves the    *)
(* store unchanged, so repeated calls return the same value.               *)
(***************************************************************************)
C6_NoCredentialReadIsPure ==
  [][(pc = "store" /\ depth = 0 /\ KeyOf(getApiKeys(req.userId), Platform) = "")
       => /\ pc' = "storeDone" /\ depth' = 0 /\ fetches' = 0
          /\ ret' = CacheGet(socialStats, CacheKey)
          /\ ret' = before
          /\ store' = store]_vars

C6_Witness ==
  /\ ReadReturned /\ ~hadKey /\ fetches = 0
  /\ ret # NoStats /\ ret = CacheGet(socialStats, CacheKey)

(***************************************************************************)
(* C7  An adapter call whose outbound call fails, and every call of a stub *)
(* adapter, ends in a failure visible to its caller: the catch block never *)
(* hands a stats object back as a successful result.                       *)
(***************************************************************************)
C7_FailedAdapterCallFails ==
  pc = "adapterCaught" => ret = Thrown

(***************************************************************************)
(* Pages of a gathered post list, computed as getPosts computes them.      *)
(***************************************************************************)
PostsGathered == Answered /\ Call = "getPosts" /\ resp.status = 200
Limits == 1..MaxLimit \cup {DefaultLimit}
PageCount(total, limit) == totalPages(total, limit)
PageOf(sorted, page, limit) ==
  slice(sorted, startIndex(page, limit), endIndex(page, limit))

RECURSIVE ConcatPages(_, _, _)
ConcatPages(sorted, n, limit) ==
  IF n = 0 THEN << >>
  ELSE ConcatPages(sorted, n - 1, limit) \o PageOf(sorted, n, limit)

\* position of a post in the order it was gathered (platform order, then
\* position in the platform's posts)
SourceIndex(post) == CHOOSE k \in 1..Len(acc) : acc[k] = post

\* a is allowed directly before b: newer first, equal dates in source order
InOrder(a, b) ==
  \/ a.datePosted > b.datePosted
  \/ a.datePosted = b.datePosted /\ SourceIndex(a) < SourceIndex(b)

(***************************************************************************)
(* C8  The posts getPosts returns are ordered by datePosted descending,    *)
(* inside a page and from one page to the next, and posts with equal       *)
(* datePosted keep their source order.                                     *)
(***************************************************************************)
C8_PostsSortedStable ==
  PostsGathered =>
    LET sorted == sortByDatePosted(acc)
    IN  /\ \A limit \in Limits :
             \A page \in 1..PageCount(Len(acc), limit) :
               LET this == PageOf(sorted, page, limit)
                   next == PageOf(sorted, page + 1, limit)
               IN  /\ \A i \in 1..(Len(this) - 1) : InOrder(this[i], this[i + 1])
                   /\ (this # << >> /\ next # << >>)
                        => InOrder(this[Len(this)], next[1])
        /\ (req.page > 0 /\ req.limit > 0)
             => /\ resp.posts = PageOf(sorted, req.page, req.limit)
                /\ \A i \in 1..(Len(resp.posts) - 1) :
                     InOrder(resp.posts[i], resp.posts[i + 1])

C8_Witness ==
  /\ PostsGathered /\ req.platforms = Platforms
  /\ req.page = 2 /\ req.limit = 3 /\ Len(resp.posts) = 3
  /\ \E i \in 1..2 : resp.posts[i].datePosted = resp.posts[i + 1].datePosted

(***************************************************************************)
(* C9  For a positive limit, every page has at most limit posts, pages     *)
(* 1..ceil(total/limit) concatenated are the full sorted sequence with     *)
(* every post exactly once, later pages are empty, and the reported total  *)
(* is the length of the full sequence.                                     *)
(***************************************************************************)
C9_PagesPartitionPosts ==
  PostsGathered =>
    LET sorted == sortByDatePosted(acc)
        total == Len(acc)
    IN  /\ resp.pagination.total = total
        /\ Len(sorted) = total
        /\ \A k \in 1..total : \E i \in 1..total : sorted[i] = acc[k]
        /\ \A limit \in Limits :
             LET n == PageCount(total, limit)
             IN  /\ \A page \in 1..(n + 2) :
                       /\ Len(PageOf(sorted, page, limit)) <= limit
                       /\ page > n => PageOf(sorted, page, limit) = << >>
                       /\ page < n => Len(PageOf(sorted, page, limit)) = limit
                 /\ ConcatPages(sorted, n, limit) = sorted
        /\ (req.page > 0 /\ req.limit > 0)
             => /\ Len(resp.posts) <= req.limit
                /\ resp.pagination.totalPages = PageCount(total, req.limit)

C9_Witness ==
  /\ PostsGathered /\ req.platforms = Platforms
  /\ req.page = 2 /\ req.limit = 3
  /\ resp.pagination.total > 6 /\ Len(resp.posts) = 3

(***************************************************************************)
(* C10  Every userId, days, page and limit the request layer passes to the *)
(* store is a positive integer: a missing parameter is replaced by its     *)
(* default, a zero, negative or non-numeric one never reaches the store.   *)
(***************************************************************************)
C10_StoreGetsPositiveIntegers ==
  (IsRead /\ Call # "none" /\ (Serving \/ resp.status = 200)) =>
     /\ req.userId > 0 /\ req.days > 0
     /\ PostsGathered => (req.page > 0 /\ req.limit > 0)

(***************************************************************************)
(* The answers to GET /api/stats?userId=1&days=7 for a user 1 who has no   *)
(* credential on file.                                                     *)
(***************************************************************************)
NoCredentials(userId) ==
  \A p \in PlatformSet : KeyOf(getApiKeys(userId), p) = ""

SeededAggregate ==
  /\ Answered /\ Route = "GET /api/stats" /\ Call = "getAllPlatformStats"
  /\ req.userId = 1 /\ req.days = 7
  /\ getUser(1) # NoUser /\ NoCredentials(1)

Seed(platform) == initializeSampleData(0)[Key(1, platform, 7)]

FourSeededEntries ==
  /\ resp.status = 200
  /\ Len(resp.stats) = 4
  /\ \A i \in 1..4 :
       /\ resp.stats[i].platform = Platforms[i]
       /\ SameData(resp.stats[i], Seed(Platforms[i]))
       /\ resp.stats[i].isConnected # "true"

(***************************************************************************)
(* C11 as stated: for user 1 with no credentials, GET                      *)
(* /api/stats?userId=1&days=7 returns four entries, youtube, instagram,    *)
(* twitter, facebook in that order, each with the seeded sample counters   *)
(* and a connected flag that is not true.                                  *)
(***************************************************************************)
C11_Original == SeededAggregate => FourSeededEntries

(***************************************************************************)
(* C11 amended: the same, for a user 1 whose cached 7-day entries no       *)
(* earlier live fetch has replaced.                                        *)
(***************************************************************************)
C11_SeededAggregate ==
  (SeededAggregate
   /\ \A p \in PlatformSet : SameData(socialStats[Key(1, p, 7)], Seed(p)))
    => FourSeededEntries

C11_Witness ==
  /\ SeededAggregate /\ FourSeededEntries
  /\ getApiKeys(1) # NoKeys
  /\ resp.stats[1].followers = 78200
  /\ resp.stats[1].isConnected = "false"

(***************************************************************************)
(* Vocabulary of the credential requests.                                  *)
(***************************************************************************)
KeysPosted == Answered /\ Route = "POST /api/apikeys" /\ resp.status \in {200, 201}
KeysRead == Answered /\ Route = "GET /api/apikeys" /\ resp.status = 200
Names(body, platform) == (platform \o "Key") \in DOMAIN body
UserIds == 1..MaxUsers

(***************************************************************************)
(* C12  A successful POST /api/apikeys with a non-empty key for platform P *)
(* of user u stores that value; the stored key of (u, P) changes only by a *)
(* POST /api/apikeys for u that names P, so keys not named in an update    *)
(* keep their values; GET /api/apikeys?userId=u returns the stored keys.   *)
(***************************************************************************)
C12_KeysReadBack ==
  [][/\ KeysPosted' =>
          \A u \in UserIds, p \in PlatformSet :
            (req'.body.userId = u /\ Names(req'.body, p)) =>
              /\ KeyOf(getApiKeys(u)', p) = KeyOf(req'.body, p)
              /\ KeyOf(resp'.apiKeys, p) = KeyOf(req'.body, p)
     /\ \A u \in UserIds, p \in PlatformSet :
          KeyOf(getApiKeys(u)', p) # KeyOf(getApiKeys(u), p)
            => /\ KeysPosted' /\ req'.body.userId = u /\ Names(req'.body, p)
     /\ KeysRead' =>
          \E u \in UserIds :
            /\ req'.userId = u
            /\ \A p \in PlatformSet :
                 KeyOf(resp'.apiKeys, p) = KeyOf(getApiKeys(u)', p)]_vars

C12_Witness ==
  /\ KeysRead /\ req.userId = 2
  /\ resp.apiKeys.youtubeKey = "k" /\ resp.apiKeys.twitterKey = "k"
  /\ KeyOf(getApiKeys(1), "youtube") = ""

(***************************************************************************)
(* C13  Every successful POST /api/apikeys for an existing user leaves     *)
(* that user's isFirstLogin false, whether it created the credential set   *)
(* or updated it and whatever requests preceded it.                        *)
(***************************************************************************)
C13_KeysClearFirstLogin ==
  (KeysPosted /\ getUser(req.body.userId) # NoUser)
    => ~getUser(req.body.userId).isFirstLogin

(***************************************************************************)
(* C14  The store holds at most one credential set per userId, and the id  *)
(* of a user's credential set never changes once it exists.                *)
(***************************************************************************)
OneKeySetPerUser ==
  \A i, j \in DOMAIN platformApiKeys :
    platformApiKeys[i].userId = platformApiKeys[j].userId => i = j

C14_OneCredentialSet ==
  [][/\ OneKeySetPerUser'
     /\ \A u \in UserIds :
          getApiKeys(u) # NoKeys => getApiKeys(u)'.id = getApiKeys(u).id]_vars

C14_Witness ==
  /\ KeysPosted /\ resp.status = 200 /\ req.body.userId = 2
  /\ Len(platformApiKeys) = 2 /\ getApiKeys(2).id = 1 /\ getApiKeys(1).id = 2

(***************************************************************************)
(* Vocabulary of the subscription requests.                                *)
(***************************************************************************)
SubscriptionPosted == Answered /\ Route = "POST /api/subscription"
Subscribed == SubscriptionPosted /\ resp.status = 201

\* the month after the month of a date
FollowingMonth(date) ==
  IF date.month = 12 THEN [year |-> date.year + 1, month |-> 1]
  ELSE [year |-> date.year, month |-> date.month + 1]

MonthOf(date) == [year |-> date.year, month |-> date.month]

(***************************************************************************)
(* C15  A monthly subscription is created active, its endDate is a date in *)
(* the month following the month of its startDate, for every start date,   *)
(* the 29th to 31st included, and the user's isPro becomes true.           *)
(***************************************************************************)
C15_MonthlyEndsNextMonth ==
  (Subscribed /\ req.plan = "monthly") =>
     /\ resp.subscription.status = "active"
     /\ resp.subscription.startDate = req.now
     /\ MonthOf(resp.subscription.endDate) = FollowingMonth(req.now)
     /\ getUser(req.userId) # NoUser => getUser(req.userId).isPro

(***************************************************************************)
(* C16  POST /api/subscription with a signature that is not the HMAC of    *)
(* orderId|paymentId, with a required field missing, or with a plan other  *)
(* than monthly and annual is answered 400; no subscription is created and *)
(* no user record changes.                                                 *)
(***************************************************************************)
Rejectable(request) ==
  \/ request.userId = 0 \/ request.plan = ""
  \/ request.paymentId = "" \/ request.orderId = ""
  \/ request.signature \notin {"", Hmac(request.orderId, request.paymentId)}
  \/ request.plan \notin {"monthly", "annual"}

C16_BadSubscriptionRejected ==
  [][SubscriptionPosted' =>
       /\ Rejectable(req') => resp'.status = 400
       /\ resp'.status = 400 => store' = store
       /\ resp'.status \in {400, 201}]_vars

C16_Witness ==
  /\ SubscriptionPosted /\ resp.status = 400
  /\ req.plan = "monthly" /\ req.paymentId = "p1"
  /\ req.signature = Hmac("o1", "p2")
  /\ getUser(req.userId) # NoUser /\ ~getUser(req.userId).isPro
  /\ userSubscriptions = << >>

(***************************************************************************)
(* C17  In every reachable state each user has at most one subscription    *)
(* record with status 'active'.                                            *)
(***************************************************************************)
ActiveOf(userId) ==
  {i \in DOMAIN userSubscriptions :
     userSubscriptions[i].userId = userId
     /\ userSubscriptions[i].status = "active"}

C17_OneActiveSubscription ==
  \A u \in UserIds : Cardinality(ActiveOf(u)) <= 1

(***************************************************************************)
(* C18  Once POST /api/subscription has succeeded for an existing user,    *)
(* that user is pro and stays pro whatever request follows, and no GET     *)
(* /api/stats or GET /api/posts for a pro user is answered 403, for any    *)
(* days value.                                                             *)
(***************************************************************************)
C18_ProIsNeverDenied ==
  [][/\ \A u \in DOMAIN users : users[u].isPro => users'[u].isPro
     /\ Subscribed' =>
          \A u \in DOMAIN users : req'.userId = u => users'[u].isPro
     /\ IsRead' =>
          \A u \in DOMAIN users :
            (req'.userId = u /\ users'[u].isPro) => resp'.status # 403]_vars

C18_Witness ==
  /\ Answered /\ Route = "GET /api/posts" /\ req.days = 30
  /\ resp.status = 200 /\ Len(resp.posts) > 0
  /\ getUser(req.userId).isPro /\ Len(userSubscriptions) = 2

(***************************************************************************)
(* C19  The store holds at most one user per firebaseUid and user ids are  *)
(* pairwise distinct; POST /api/user for a firebaseUid that exists updates *)
(* that user and leaves its id, isPro and isFirstLogin unchanged, and for  *)
(* a new firebaseUid creates a user with isPro false and isFirstLogin      *)
(* true.                                                                   *)
(***************************************************************************)
UserPosted == Answered /\ Route = "POST /api/user"

OneUserPerUid ==
  \A i, j \in DOMAIN users :
    (users[i].firebaseUid = users[j].firebaseUid \/ users[i].id = users[j].id)
      => i = j

Flags(user) == <<user.id, user.isPro, user.isFirstLogin>>

C19_UsersByFirebaseUid ==
  [][/\ OneUserPerUid'
     /\ UserPosted' =>
          \A uid \in FirebaseUids :
            req'.body.firebaseUid = uid =>
              IF getUserByFirebaseUid(uid) # NoUser
              THEN /\ resp'.status = 200
                   /\ Len(users') = Len(users)
                   /\ \A i \in DOMAIN users : Flags(users'[i]) = Flags(users[i])
                   /\ resp'.user = getUserByFirebaseUid(uid)'
              ELSE /\ resp'.status = 201
                   /\ Len(users') = Len(users) + 1
                   /\ \A i \in DOMAIN users : users'[i] = users[i]
                   /\ getUserByFirebaseUid(uid)'.id \notin DOMAIN users
                   /\ ~getUserByFirebaseUid(uid)'.isPro
                   /\ getUserByFirebaseUid(uid)'.isFirstLogin]_vars

C19_Witness ==
  /\ UserPosted /\ resp.status = 200 /\ Len(users) = 2
  /\ "isFirstLogin" \in DOMAIN req.body /\ req.body.isFirstLogin
  /\ ~resp.user.isFirstLogin /\ resp.user.id = 2

(***************************************************************************)
(* C20  The adapter factory returns an adapter for each of the tags        *)
(* youtube, twitter, instagram and facebook, each its own, fails with the  *)
(* unsupported-platform error for every other tag, and changes no store    *)
(* state.                                                                  *)
(***************************************************************************)
FactoryCalled == Answered /\ Route = "getService"

C20_FactoryTotalOnFourTags ==
  [][FactoryCalled' =>
       /\ store' = store
       /\ req'.platform \in {"youtube", "twitter", "instagram", "facebook"}
            => /\ resp'.status = 200
               /\ resp'.service # "unsupported"
               /\ \A other \in PlatformSet \ {req'.platform} :
                    getService(other) # resp'.service
       /\ req'.platform \notin {"youtube", "twitter", "instagram", "facebook"}
            => resp' = [status |-> 500, error |-> "Unsupported platform"]]_vars

C20_Witness ==
  /\ FactoryCalled /\ req.platform = "facebook"
  /\ resp.status = 200 /\ resp.service = "FacebookApiService"
  /\ platformApiKeys # << >>

(***************************************************************************)
(* C21  A request that names an absent resource is answered 404 and        *)
(* changes no state: GET /api/user, GET /api/stats and GET /api/posts for  *)
(* a user id that is not stored, GET /api/apikeys for a user with no       *)
(* credential set, GET /api/subscription for a user with no subscription,  *)
(* and GET /api/stats for a single platform of which the cache held no     *)
(* entry for the window when the request came in and no live fetch         *)
(* supplied one (no credential on file, or the live fetch failed).         *)
(***************************************************************************)
UserRoutes == {"GET /api/user", "GET /api/stats", "GET /api/posts"}

\* the single-platform read of the request found nothing to answer with
StatsAbsent ==
  /\ Route = "GET /api/stats" /\ Call = "getPlatformStats"
  /\ getUser(req.userId) # NoUser /\ resp # Denied
  /\ before = NoStats
  /\ ~hadKey \/ firstFailed

C21_AbsentIsNotFound ==
  [][/\ (pc = "idle" /\ Answered' /\ req'.route \in UserRoutes
         /\ \A u \in UserIds : req'.userId = u => getUser(u) = NoUser)
          => (resp' = NotFound /\ UNCHANGED store)
     /\ (pc = "idle" /\ Answered' /\ req'.route = "GET /api/apikeys"
         /\ \E u \in UserIds : req'.userId = u /\ getApiKeys(u) = NoKeys)
          => (resp' = NotFound /\ UNCHANGED store)
     /\ (pc = "idle" /\ Answered' /\ req'.route = "GET /api/subscription"
         /\ \E u \in UserIds : req'.userId = u /\ getSubscription(u) = NoSub)
          => (resp' = NotFound /\ UNCHANGED store)
     /\ (Answered /\ StatsAbsent)
          => (resp = NotFound /\ CacheGet(socialStats, CacheKey) = NoStats)
    ]_vars

(***************************************************************************)
(* C22  A subscription record is created, and a user's isPro becomes true, *)
(* only by a POST /api/subscription request whose payment signature, when  *)
(* the request carries one, was verified successfully; a request without a *)
(* signature is accepted unverified.  No other request creates a record or *)
(* makes a user pro.                                                       *)
(***************************************************************************)
\* the step adds a subscription record or turns some user's isPro on
RecordOrProAdded ==
  \/ Len(userSubscriptions') > Len(userSubscriptions)
  \/ \E i \in DOMAIN users' :
       /\ users'[i].isPro
       /\ i \in DOMAIN users => ~users[i].isPro

Verified(request) ==
  request.signature = Hmac(request.orderId, request.paymentId)

\* the claim as stated: a verified signature behind every new record
C22_Original ==
  [][RecordOrProAdded =>
       /\ Subscribed'
       /\ Verified(req')]_vars

C22_ProOnlyBySubscription ==
  [][RecordOrProAdded =>
       /\ Subscribed'
       /\ req'.signature # "" => Verified(req')]_vars

C22_Witness ==
  /\ Subscribed /\ Verified(req)
  /\ getUser(req.userId) # NoUser /\ getUser(req.userId).isPro
  /\ getSubscription(req.userId) # NoSub

(***************************************************************************)
(* C23  A read or a cache write for (user, platform, window) touches only  *)
(* the cache entry of that exact triple: entries of any other user,        *)
(* platform or window are unchanged by it, no step outside a read changes  *)
(* the cache, and every entry stored under (u, p, d) has platform field p. *)
(***************************************************************************)
C23_CacheFrame ==
  [][/\ ~Serving => socialStats' = socialStats
     /\ Serving =>
          \A k \in DOMAIN socialStats \cup DOMAIN socialStats' :
            k # CacheKey => CacheGet(socialStats', k) = CacheGet(socialStats, k)
     /\ \A k \in DOMAIN socialStats' : socialStats'[k].platform = k[2]]_vars

C23_Witness ==
  /\ ReadReturned /\ Platform = "youtube" /\ req.days = 3
  /\ before = NoStats /\ CacheGet(socialStats, CacheKey) = ret /\ ret # NoStats
  /\ \A p \in PlatformSet, d \in {7, 30} :
       socialStats[Key(1, p, d)] = initializeSampleData(0)[Key(1, p, d)]

(***************************************************************************)
(* C24  Every getPlatformStats call eventually returns, a stats entry or   *)
(* undefined, for every user, platform and window, also when a credential  *)
(* is on file and the live fetch fails on every attempt: store and adapter *)
(* do not call each other without bound.                                   *)
(***************************************************************************)
ReadCalled == pc = "store" /\ depth = 0

C24_ReadReturns == ReadCalled ~> ReadReturned

(***************************************************************************)
(* C25  In every reachable state no entry of the stats cache carries the   *)
(* error annotations: isApiError is false and errorMessage is empty in     *)
(* every stored entry, so that a later read without a credential cannot    *)
(* return an annotated entry.                                              *)
(***************************************************************************)
C25_NoAnnotatedEntryStored ==
  \A k \in DOMAIN socialStats :
    ~socialStats[k].isApiError /\ socialStats[k].errorMessage = ""

(***************************************************************************)
(* C27  In every reachable state a stored user has isPro = true only if at *)
(* least one subscription record with that user's id exists in the store.  *)
(***************************************************************************)
RecordsOf(userId) ==
  {j \in DOMAIN userSubscriptions : userSubscriptions[j].userId = userId}

C27_ProHasSubscription ==
  \A i \in DOMAIN users : users[i].isPro => RecordsOf(users[i].id) # {}

C27_Witness ==
  /\ pc = "idle"
  /\ \E i \in DOMAIN users : users[i].isPro /\ RecordsOf(users[i].id) # {}
  /\ \E i \in DOMAIN users : ~users[i].isPro /\ RecordsOf(users[i].id) = {}

(***************************************************************************)
(* C26  getDaysInRange(getDateRangeFromOption('7d')) is 7 and that of      *)
(* '30d' is 30 at every current date, so that the Posts page with the      *)
(* 'Last 7 days' option asks GET /api/posts for days=7, which the free     *)
(* tier allows.                                                            *)
(***************************************************************************)
C26_OptionDays ==
  /\ getDaysInRange(getDateRangeFromOption("7d", today)) = 7
  /\ getDaysInRange(getDateRangeFromOption("30d", today)) = 30
  /\ (postsPage.dateRange = "7d" /\ postsPage.data # Loading)
       => (postsPage.data.days = 7 /\ postsPage.data.days <= FreeDays)

SignedOutAndSettled ==
  firebaseUser = NoFirebaseUser /\ \A s \in SyncSlots : ~InFlight(s)

C29_SignedOutMeansNoUser ==
  SignedOutAndSettled => (~auth.isAuthenticated /\ auth.user = NoUser)

(***************************************************************************)
(* C30  Every run of handlePayment that sets isProcessing to true          *)
(* eventually sets it back to false, whether order creation succeeds or    *)
(* fails, and whether the checkout widget calls the success handler, fires *)
(* payment.failed, or is closed with neither.                              *)
(***************************************************************************)
C30_ProcessingEnds == modal.isProcessing ~> ~modal.isProcessing

====
